---- MODULE Spec2Model ----
(***************************************************************************)
(* Model of the ST7032i LCD driver (src/src/lib.rs).                       *)
(*                                                                         *)
(* The driver handle holds six configuration fields.  Every public method  *)
(* is one action: it mutates the fields, writes frames to the I2C bus and  *)
(* requests delays.  The frames and delays issued by the most recent call  *)
(* are recorded, in order, in `trace`; `ret` is what the call returned.    *)
(* The transport is an input: for each call an oracle names the writes     *)
(* (by their position within the call) that the bus rejects.               *)
(***************************************************************************)
EXTENDS Integers, Sequences, FiniteSets, TLC

VARIABLES entry, lines, scroll, display, cursor, blink,   \* struct ST7032i
          op, args, trace, ret,                           \* the last call
          fresh, scen                                     \* history

cfg  == <<entry, lines, scroll, display, cursor, blink>>
vars == <<entry, lines, scroll, display, cursor, blink, op, args, trace, ret,
          fresh, scen>>

----------------------------------------------------------------------------
(* Bounds of the model *)

MaxLines == 2      \* new(.., lines) is called with lines in 1..MaxLines
MaxLen   == 2      \* longest string given to write_str
MaxFails == 1      \* most bus writes the transport rejects within one call
MaxRow   == 1      \* move_cursor rows are 0..MaxRow
MaxCol   == 1      \* move_cursor columns are 0..MaxCol

Chars == {72, 49}                        \* bytes of the strings written: "H", "1"
Strings == UNION {[1..n -> Chars] : n \in 0..MaxLen}

----------------------------------------------------------------------------
(* Constants of the source *)

I2C_ADRESS == 62                 \* 0x3e

Normal   == "Normal"
Extented == "Extented"
InstructionSet == {Normal, Extented}

LeftToRigh  == "LeftToRigh"
RightToLeft == "RightToLeft"
Direction == {LeftToRigh, RightToLeft}

CLEAR_DISPLAY == 1               \* 0b_00000001
RETURN_HOME   == 2               \* 0b_00000010

----------------------------------------------------------------------------
(* u8 arithmetic *)

Bit(b, i) == (b \div (2 ^ i)) % 2

\* bitwise OR of two bytes ( `|` and `|=` on u8 )
RECURSIVE OrFrom(_, _, _)
OrFrom(a, b, w) ==
  IF w = 0 THEN 0
  ELSE (IF a % 2 = 1 \/ b % 2 = 1 THEN 1 ELSE 0) + 2 * OrFrom(a \div 2, b \div 2, w - 1)

BitOr(a, b) == OrFrom(a, b, 8)

\* `command |= mask` under `if cond`
OrIf(cond, command, mask) == IF cond THEN BitOr(command, mask) ELSE command

----------------------------------------------------------------------------
(* The capabilities: bus transport and delay.  A running call is a record  *)
(* m: the six fields, the events issued so far, the number nw of writes    *)
(* among them, and the Result of the last fallible step ("ok" or "err").   *)

WriteEv(addr, bytes, ok) ==
  [k |-> "w", addr |-> addr, bytes |-> bytes, ok |-> ok, ms |-> 0]
DelayEv(ms) ==
  [k |-> "d", addr |-> 0, bytes |-> <<>>, ok |-> TRUE, ms |-> ms]

Writes(t) == SelectSeq(t, LAMBDA e : e.k = "w")

\* the `?` operator and `return`: once a step of the call has produced an
\* Err (or panicked) the steps after it are skipped
Then(m, next) == IF m.res = "ok" THEN next ELSE m

\* self.i2c.write(addr, bytes): the n-th write of the call fails iff n \in fails
i2c_write(m, fails, addr, bytes) ==
  LET n  == m.nw + 1
      ok == n \notin fails
  IN  Then(m, [m EXCEPT !.trace = Append(@, WriteEv(addr, bytes, ok)),
                        !.nw    = n,
                        !.res   = IF ok THEN "ok" ELSE "err"])

\* self.delay.delay_ms(ms)
delay_ms(m, ms) == Then(m, [m EXCEPT !.trace = Append(@, DelayEv(ms))])


send_command_swallowsErr(m, fails, command) ==
  delay_ms([i2c_write(m, fails, I2C_ADRESS, <<0, command>>) EXCEPT !.res = m.res], 1)

send_command_noSettle(m, fails, command) ==
  i2c_write(m, fails, I2C_ADRESS, <<0, command>>)

send_command(m, fails, command) ==
  delay_ms(i2c_write(m, fails, I2C_ADRESS, <<0, command>>), 1)

----------------------------------------------------------------------------
(* Private encoders *)

send_entry_mode(m, fails) ==
  LET c0 == 4
      c1 == OrIf(m.scroll, c0, 1)
      c2 == OrIf(m.entry = LeftToRigh, c1, 2)
  IN  send_command(m, fails, c2)


send_display_mode_swapsBits(m, fails) ==
  LET c0 == 8
      c1 == OrIf(m.blink, c0, 2)
      c2 == OrIf(m.cursor, c1, 1)
      c3 == OrIf(m.display, c2, 4)
  IN  send_command(m, fails, c3)

send_display_mode(m, fails) ==
  LET c0 == 8
      c1 == OrIf(m.blink, c0, 1)
      c2 == OrIf(m.cursor, c1, 2)
      c3 == OrIf(m.display, c2, 4)
  IN  send_command(m, fails, c3)



send_function_dblWithLines(m, fails, is, nlines, dbl) ==
  LET c0 == 48
      c1 == OrIf(nlines > 1, c0, 8)
      c2 == OrIf(dbl, c1, 4)
      c3 == OrIf(is = Extented, c2, 1)
  IN  send_command(m, fails, c3)

send_function_ignoresSet(m, fails, is, nlines, dbl) ==
  LET c0 == 48
      c1 == IF nlines > 1 THEN BitOr(c0, 8)
            ELSE IF dbl THEN BitOr(c0, 4)
            ELSE c0
  IN  send_command(m, fails, BitOr(c1, 1))

send_function(m, fails, is, nlines, dbl) ==
  LET c0 == 48
      c1 == IF nlines > 1 THEN BitOr(c0, 8)
            ELSE IF dbl THEN BitOr(c0, 4)
            ELSE c0
      c2 == OrIf(is = Extented, c1, 1)
  IN  send_command(m, fails, c2)

\* a failed assert! panics: nothing is written and the call never returns
Panic(m) == Then(m, [m EXCEPT !.res = "panic"])

send_osc_config(m, fails, bias, freq) ==
  IF ~(freq < 8) THEN Panic(m)
  ELSE LET c0 == BitOr(16, freq)
           c1 == OrIf(bias, c0, 8)
       IN  send_command(m, fails, c1)


send_contrast_masks(m, fails, contrast) ==
  send_command(m, fails, BitOr(112, contrast % 16))

send_contrast(m, fails, contrast) ==
  IF ~(contrast < 16) THEN Panic(m)
  ELSE send_command(m, fails, BitOr(112, contrast))

send_booster_config(m, fails, on_, icon, contrast_low) ==
  IF ~(contrast_low < 4) THEN Panic(m)
  ELSE LET c0 == BitOr(80, contrast_low)
           c1 == OrIf(on_, c0, 4)
           c2 == OrIf(icon, c1, 8)
       IN  send_command(m, fails, c2)

send_follower_config(m, fails, on_, ratio) ==
  IF ~(ratio < 8) THEN Panic(m)
  ELSE LET c0 == BitOr(96, ratio)
           c1 == OrIf(on_, c0, 8)
       IN  send_command(m, fails, c1)

----------------------------------------------------------------------------
(* Public methods, as functions of the running call *)


on_hidesCursor(m, fails) ==
  Then(m, send_display_mode([m EXCEPT !.display = TRUE, !.cursor = FALSE,
                                      !.blink = FALSE], fails))

on(m, fails)  == Then(m, send_display_mode([m EXCEPT !.display = TRUE], fails))

off_hidesCursor(m, fails) ==
  Then(m, send_display_mode([m EXCEPT !.display = FALSE, !.cursor = FALSE], fails))

off(m, fails) == Then(m, send_display_mode([m EXCEPT !.display = FALSE], fails))

clear_sendsHome(m, fails) == delay_ms(send_command(m, fails, RETURN_HOME), 2)

clear(m, fails) == delay_ms(send_command(m, fails, CLEAR_DISPLAY), 2)


home_noSettle(m, fails) == send_command(m, fails, RETURN_HOME)

home(m, fails) == delay_ms(send_command(m, fails, RETURN_HOME), 2)



move_cursor_masksCol(m, fails, row, col) ==
  LET command == IF row = 0 THEN BitOr(col % 64, 128) ELSE BitOr(col % 64, 192)
  IN  send_command(m, fails, command)

move_cursor_twoWrites(m, fails, row, col) ==
  send_command(send_command(m, fails, IF row = 0 THEN 128 ELSE 192), fails, col)

move_cursor(m, fails, row, col) ==
  LET command == IF row = 0 THEN BitOr(col, 128) ELSE BitOr(col, 192)
  IN  send_command(m, fails, command)

show_cursor(m, fails, b) ==
  send_display_mode([m EXCEPT !.cursor = TRUE, !.blink = b], fails)


hide_cursor_sendsFirst(m, fails) ==
  LET r == send_display_mode([m EXCEPT !.cursor = FALSE], fails)
  IN  [r EXCEPT !.blink = FALSE]

hide_cursor(m, fails) ==
  send_display_mode([m EXCEPT !.cursor = FALSE, !.blink = FALSE], fails)


enable_scroll_onlyOnOk(m, fails, dir) ==
  LET r == send_entry_mode([m EXCEPT !.scroll = TRUE, !.entry = dir], fails)
  IN  IF r.res = "ok" THEN r ELSE [r EXCEPT !.scroll = m.scroll, !.entry = m.entry]

enable_scroll(m, fails, dir) ==
  send_entry_mode([m EXCEPT !.scroll = TRUE, !.entry = dir], fails)


disable_scroll_resetsEntry(m, fails) ==
  send_entry_mode([m EXCEPT !.scroll = FALSE, !.entry = RightToLeft], fails)

disable_scroll(m, fails) ==
  send_entry_mode([m EXCEPT !.scroll = FALSE], fails)


shift_display_setsEntry(m, fails, dir) ==
  send_command([m EXCEPT !.entry = dir], fails, OrIf(dir = LeftToRigh, 24, 4))

shift_display(m, fails, dir) ==
  send_command(m, fails, OrIf(dir = LeftToRigh, 24, 4))


shift_cursor_wrongOpcode(m, fails, dir) ==
  send_command(m, fails, OrIf(dir = LeftToRigh, 48, 4))

shift_cursor(m, fails, dir) ==
  send_command(m, fails, OrIf(dir = LeftToRigh, 16, 4))


init_probe_fatal(p) == delay_ms(p, 1)

\* match self.send_function(Normal, 1, false):
\*   Ok(_) => delay_ms(1), Err(_) => delay_ms(20); the Result is dropped
init_probe(p) ==
  IF p.res = "ok" THEN delay_ms(p, 1)
  ELSE delay_ms([p EXCEPT !.res = "ok"], 20)

init(m, fails) ==
  LET p1  == init_probe(send_function(m, fails, Normal, 1, FALSE))
      p2  == delay_ms(send_function(p1, fails, Extented, 1, FALSE), 5)
      p3  == delay_ms(send_function(p2, fails, Extented, 1, FALSE), 5)
      p4  == delay_ms(send_function(p3, fails, Extented, m.lines, FALSE), 5)
      p5  == off(p4, fails)
      p6  == send_osc_config(p5, fails, TRUE, 0)
      p7  == send_contrast(p6, fails, 0)
      p8  == send_booster_config(p7, fails, TRUE, FALSE, 0)
      p9  == send_follower_config(p8, fails, TRUE, 0)
      p10 == delay_ms(send_entry_mode(p9, fails), 20)
      p11 == on(p10, fails)
  IN  clear(p11, fails)


RECURSIVE write_bytes_stopsOnErr(_, _, _, _)
write_bytes_stopsOnErr(m, fails, s, i) ==
  IF i > Len(s) THEN m
  ELSE write_bytes_stopsOnErr(i2c_write(m, fails, I2C_ADRESS, <<64, s[i]>>),
                              fails, s, i + 1)

\* fmt::Write::write_str: one write per byte, each Result discarded by .ok()
RECURSIVE write_bytes(_, _, _, _)
write_bytes(m, fails, s, i) ==
  IF i > Len(s) THEN m
  ELSE write_bytes([i2c_write(m, fails, I2C_ADRESS, <<64, s[i]>>) EXCEPT !.res = "ok"],
                   fails, s, i + 1)

write_str(m, fails, s) == [write_bytes(m, fails, s, 1) EXCEPT !.res = "ok"]

----------------------------------------------------------------------------
(* The state machine *)

\* ST7032i::new: no bus traffic
Init ==
  /\ lines \in 1..MaxLines
  /\ entry = RightToLeft
  /\ scroll = FALSE /\ display = FALSE /\ cursor = FALSE /\ blink = FALSE
  /\ op = "new" /\ args = <<lines>> /\ trace = <<>> /\ ret = "ok"
  /\ fresh = TRUE /\ scen = 0

\* the handle as a call finds it
Self == [entry |-> entry, lines |-> lines, scroll |-> scroll, display |-> display,
         cursor |-> cursor, blink |-> blink, trace |-> <<>>, nw |-> 0, res |-> "ok"]

\* the transport's choices for a call that may issue up to n writes
Oracle(n) == {f \in SUBSET (1..n) : Cardinality(f) <= MaxFails}

\* a call named name with arguments a ran to m (ret is "panic" when an
\* assert! of the call failed)
Call(name, a, m) ==
  /\ entry' = m.entry /\ lines' = m.lines /\ scroll' = m.scroll
  /\ display' = m.display /\ cursor' = m.cursor /\ blink' = m.blink
  /\ op' = name /\ args' = a /\ trace' = m.trace /\ ret' = m.res
  \* fresh: the call was the first one made on the handle
  /\ fresh' = (op = "new")
  \* scen: progress through show_cursor(true); off(); on()  (1, 2, 3)
  \* and through enable_scroll(d); disable_scroll()  (4, 6 for LeftToRigh,
  \* 5, 7 for RightToLeft)
  /\ scen' = IF name = "show_cursor" /\ a = <<TRUE>> THEN 1
             ELSE IF name = "off" /\ scen = 1 THEN 2
             ELSE IF name = "on" /\ scen = 2 THEN 3
             ELSE IF name = "enable_scroll" THEN (IF a = <<LeftToRigh>> THEN 4 ELSE 5)
             ELSE IF name = "disable_scroll" /\ scen \in {4, 5} THEN scen + 2
             ELSE 0

InitCall == \E f \in Oracle(12) : Call("init", <<>>, init(Self, f))
On  == \E f \in Oracle(1) : Call("on", <<>>, on(Self, f))
Off == \E f \in Oracle(1) : Call("off", <<>>, off(Self, f))
Clear == \E f \in Oracle(1) : Call("clear", <<>>, clear(Self, f))
Home  == \E f \in Oracle(1) : Call("home", <<>>, home(Self, f))
MoveCursor ==
  \E f \in Oracle(1) : \E row \in 0..MaxRow : \E col \in 0..MaxCol :
     Call("move_cursor", <<row, col>>, move_cursor(Self, f, row, col))
ShowCursor ==
  \E f \in Oracle(1) : \E b \in BOOLEAN :
     Call("show_cursor", <<b>>, show_cursor(Self, f, b))
HideCursor == \E f \in Oracle(1) : Call("hide_cursor", <<>>, hide_cursor(Self, f))
EnableScroll ==
  \E f \in Oracle(1) : \E dir \in Direction :
     Call("enable_scroll", <<dir>>, enable_scroll(Self, f, dir))
DisableScroll ==
  \E f \in Oracle(1) : Call("disable_scroll", <<>>, disable_scroll(Self, f))
ShiftDisplay ==
  \E f \in Oracle(1) : \E dir \in Direction :
     Call("shift_display", <<dir>>, shift_display(Self, f, dir))
ShiftCursor ==
  \E f \in Oracle(1) : \E dir \in Direction :
     Call("shift_cursor", <<dir>>, shift_cursor(Self, f, dir))
WriteStr ==
  \E s \in Strings : \E f \in Oracle(Len(s)) :
     Call("write_str", <<s>>, write_str(Self, f, s))

Next ==
  \/ InitCall
  \/ On
  \/ Off
  \/ Clear
  \/ Home
  \/ MoveCursor
  \/ ShowCursor
  \/ HideCursor
  \/ EnableScroll
  \/ DisableScroll
  \/ ShiftDisplay
  \/ ShiftCursor
  \/ WriteStr

Spec == Init /\ [][Next]_vars

----------------------------------------------------------------------------
(* The encoders over the whole range of their u8 parameters: one call on a  *)
(* new handle.                                                              *)

MaxU8 == 255

MoveCursorAny ==
  /\ op = "new"
  /\ \E f \in Oracle(1) : \E row \in 0..MaxU8 : \E col \in 0..MaxU8 :
        Call("move_cursor", <<row, col>>, move_cursor(Self, f, row, col))
SendFunction ==
  /\ op = "new"
  /\ \E f \in Oracle(1) : \E is \in InstructionSet : \E n \in 0..MaxU8 :
     \E dbl \in BOOLEAN :
        Call("send_function", <<is, n, dbl>>, send_function(Self, f, is, n, dbl))
SendOscConfig ==
  /\ op = "new"
  /\ \E f \in Oracle(1) : \E bias \in BOOLEAN : \E freq \in 0..MaxU8 :
        Call("send_osc_config", <<bias, freq>>, send_osc_config(Self, f, bias, freq))
SendContrast ==
  /\ op = "new"
  /\ \E f \in Oracle(1) : \E contrast \in 0..MaxU8 :
        Call("send_contrast", <<contrast>>, send_contrast(Self, f, contrast))
SendBoosterConfig ==
  /\ op = "new"
  /\ \E f \in Oracle(1) : \E on_ \in BOOLEAN : \E icon \in BOOLEAN :
     \E contrast_low \in 0..MaxU8 :
        Call("send_booster_config", <<on_, icon, contrast_low>>,
             send_booster_config(Self, f, on_, icon, contrast_low))
SendFollowerConfig ==
  /\ op = "new"
  /\ \E f \in Oracle(1) : \E on_ \in BOOLEAN : \E ratio \in 0..MaxU8 :
        Call("send_follower_config", <<on_, ratio>>,
             send_follower_config(Self, f, on_, ratio))

NextEnc ==
  \/ MoveCursorAny
  \/ SendFunction
  \/ SendOscConfig
  \/ SendContrast
  \/ SendBoosterConfig
  \/ SendFollowerConfig

SpecEnc == Init /\ [][NextEnc]_vars

----------------------------------------------------------------------------
(* Reading the record of the last call *)

W    == Writes(trace)                            \* the bus writes, in order
Cmds == [i \in 1..Len(W) |-> W[i].bytes[2]]      \* their payload bytes
AllOk == \A i \in 1..Len(W) : W[i].ok

B(x) == IF x THEN 1 ELSE 0

\* the delay requested from position j of the trace up to the next write
RECURSIVE WaitAfter(_, _)
WaitAfter(t, j) ==
  IF j > Len(t) \/ t[j].k = "w" THEN 0 ELSE t[j].ms + WaitAfter(t, j + 1)

\* every write but the last event is directly followed by a delay
SettleAfterEachWrite ==
  \A j \in 1..Len(trace) :
     trace[j].k = "w" => (j < Len(trace) /\ trace[j + 1].k = "d" /\ trace[j + 1].ms >= 1)

SingleCommandOps ==
  {"on", "off", "clear", "home", "move_cursor", "show_cursor", "hide_cursor",
   "enable_scroll", "disable_scroll", "shift_display", "shift_cursor"}

----------------------------------------------------------------------------
(* Display toggles *)

\* C1: on() and off(), whether their write succeeds or fails, leave cursor
\* and blink unchanged; after show_cursor(true), off(), on() the handle has
\* cursor = blink = TRUE and the byte written by that on() is 0b00001111.
C1_ToggleKeepsCursorBlink ==
  /\ [][op' \in {"on", "off"} => (cursor' = cursor /\ blink' = blink)]_vars
  /\ [](scen = 3 => /\ cursor /\ blink
                    /\ Len(W) = 1
                    /\ W[1].bytes = <<0, 15>>)

C1_Witness ==
  /\ scen = 3 /\ op = "on" /\ cursor /\ blink /\ display
  /\ Len(W) = 1 /\ ~W[1].ok

----------------------------------------------------------------------------
(* The initialization sequence *)

IsFunctionSet(b) == b \div 16 = 3      \* 0b0011____
IsOscConfig(b)   == b \div 16 = 1      \* 0b0001____
IsContrast(b)    == b \div 16 = 7      \* 0b0111____
IsBooster(b)     == b \div 16 = 5      \* 0b0101____
IsFollower(b)    == b \div 16 = 6      \* 0b0110____
IsEntryMode(b)   == b \div 4 = 1       \* 0b000001__
IsDisplayMode(b) == b \div 8 = 1       \* 0b00001___

InitAllOk == op = "init" /\ AllOk /\ lines = 2

\* C2 as stated: with lines = 2 and every write succeeding, init() writes
\* function-set, function-set (extended), function-set (extended, two
\* lines), oscillator, contrast, booster, follower, entry mode, display on,
\* clear, nothing else, each write followed by a settle delay.
C2_AsStated ==
  InitAllOk =>
    /\ Len(W) = 10
    /\ IsFunctionSet(Cmds[1])
    /\ IsFunctionSet(Cmds[2]) /\ Bit(Cmds[2], 0) = 1
    /\ IsFunctionSet(Cmds[3]) /\ Bit(Cmds[3], 0) = 1 /\ Bit(Cmds[3], 3) = 1
    /\ IsOscConfig(Cmds[4])
    /\ IsContrast(Cmds[5])
    /\ IsBooster(Cmds[6])
    /\ IsFollower(Cmds[7])
    /\ IsEntryMode(Cmds[8])
    /\ IsDisplayMode(Cmds[9]) /\ Bit(Cmds[9], 2) = 1
    /\ Cmds[10] = 1
    /\ SettleAfterEachWrite

\* C2, amended: with lines = 2 and every write succeeding, init() writes
\* twelve commands: function-set (normal, one line), function-set (extended,
\* one line) twice, function-set (extended, two lines), display off,
\* oscillator, contrast, booster, follower, entry mode, display on, clear;
\* nothing else, and each write is followed by a settle delay.
C2_InitSequence ==
  InitAllOk =>
    /\ Cmds = << 48, 49, 49, 57,
                 8 + B(blink) + 2 * B(cursor),
                 24, 112, 84, 104,
                 4 + B(scroll) + 2 * B(entry = LeftToRigh),
                 12 + B(blink) + 2 * B(cursor),
                 1 >>
    /\ SettleAfterEachWrite
    /\ ret = "ok"

C2_Witness ==
  InitAllOk /\ ret = "ok" /\ Len(W) = 12 /\ cursor /\ scroll

\* C3 as stated: with lines = 2 the first byte init() writes is a
\* function-set byte with bit 3 (multi-line) and bit 0 (extended) set.
C3_AsStated ==
  (op = "init" /\ lines = 2) =>
    /\ Len(W) >= 1
    /\ IsFunctionSet(Cmds[1])
    /\ Bit(Cmds[1], 3) = 1
    /\ Bit(Cmds[1], 0) = 1

\* C3, amended: with lines = 2 the first byte init() writes is the
\* function-set byte 0b00110000, bit 3 and bit 0 clear (normal instruction
\* set, one line); the function-set byte with bit 3 and bit 0 set,
\* 0b00111001, is the fourth write, and no earlier write has both bits.
C3_FirstFunctionSet ==
  (op = "init" /\ lines = 2) =>
    /\ Len(W) >= 1
    /\ Cmds[1] = 48
    /\ Len(W) >= 4 => Cmds[4] = 57
    /\ \A i \in 1..Len(W) : i < 4 => ~(Bit(Cmds[i], 3) = 1 /\ Bit(Cmds[i], 0) = 1)

C3_Witness ==
  op = "init" /\ lines = 2 /\ Len(W) >= 4 /\ Cmds[1] = 48 /\ Cmds[4] = 57

\* C4: init() as the first call on a new handle, with every write from the
\* second on succeeding, returns Ok, writes the clear opcode 0x01 last and
\* leaves display on, cursor, blink and scroll off, entry RightToLeft and
\* lines as given to new().
C4_FreshInit ==
  [][(/\ op = "new" /\ op' = "init"
      /\ \A i \in 2..Len(Writes(trace')) : Writes(trace')[i].ok)
     => /\ ret' = "ok"
        /\ Len(Writes(trace')) >= 1
        /\ Writes(trace')[Len(Writes(trace'))].bytes = <<0, 1>>
        /\ display' /\ ~cursor' /\ ~blink' /\ ~scroll'
        /\ entry' = RightToLeft
        /\ lines' = args[1]]_vars

C4_Witness ==
  /\ fresh /\ op = "init" /\ ret = "ok" /\ ~W[1].ok
  /\ Cmds[Len(W)] = 1 /\ display /\ lines = 2

\* C5 as stated: whenever init() returns Ok, display is on, cursor, blink
\* and scroll are off and entry is RightToLeft.
C5_AsStated ==
  (op = "init" /\ ret = "ok") =>
    (display /\ ~cursor /\ ~blink /\ ~scroll /\ entry = RightToLeft)

\* C5, amended: whenever init() returns Ok, display is on, and cursor,
\* blink, scroll and entry are what they were before the call.
C5_InitKeepsFlags ==
  [][(op' = "init" /\ ret' = "ok")
     => (display' /\ UNCHANGED <<cursor, blink, scroll, entry, lines>>)]_vars

C5_Witness ==
  op = "init" /\ ret = "ok" /\ display /\ cursor /\ blink /\ scroll
  /\ entry = LeftToRigh

----------------------------------------------------------------------------
(* Transport errors *)

DisplayOps == {"on", "off"}
CursorOps  == {"show_cursor", "hide_cursor"}
ScrollOps  == {"enable_scroll", "disable_scroll"}

\* what the other methods do to the flags
FlagFrame ==
  /\ op' \notin DisplayOps \cup {"init"} => display' = display
  /\ op' \notin CursorOps => (cursor' = cursor /\ blink' = blink)
  /\ op' \notin ScrollOps => scroll' = scroll

\* C6 as stated: each flag is the value set by the last call targeting it
\* that returned Ok; a call that returns Err leaves its flag as it was.
C6_AsStated ==
  [][/\ op' = "on"  => display' = (IF ret' = "ok" THEN TRUE ELSE display)
     /\ op' = "off" => display' = (IF ret' = "ok" THEN FALSE ELSE display)
     /\ op' = "show_cursor" =>
          /\ cursor' = (IF ret' = "ok" THEN TRUE ELSE cursor)
          /\ blink'  = (IF ret' = "ok" THEN args'[1] ELSE blink)
     /\ op' = "hide_cursor" =>
          /\ cursor' = (IF ret' = "ok" THEN FALSE ELSE cursor)
          /\ blink'  = (IF ret' = "ok" THEN FALSE ELSE blink)
     /\ op' = "enable_scroll"  => scroll' = (IF ret' = "ok" THEN TRUE ELSE scroll)
     /\ op' = "disable_scroll" => scroll' = (IF ret' = "ok" THEN FALSE ELSE scroll)
     /\ FlagFrame]_vars

\* C6, amended: each flag is the value requested by the last call targeting
\* it, whether that call returned Ok or Err: a call that returns Err has
\* still changed its flag.  (init() targets display: off from its fifth
\* write on, on from its eleventh.)
C6_FlagsFollowRequests ==
  [][/\ op' = "on"  => display'
     /\ op' = "off" => ~display'
     /\ op' = "show_cursor" => (cursor' /\ blink' = args'[1])
     /\ op' = "hide_cursor" => (~cursor' /\ ~blink')
     /\ op' = "enable_scroll"  => scroll'
     /\ op' = "disable_scroll" => ~scroll'
     /\ op' = "init" =>
          display' = (IF Len(Writes(trace')) >= 11 THEN TRUE
                      ELSE IF Len(Writes(trace')) >= 5 THEN FALSE
                      ELSE display)
     /\ FlagFrame]_vars

C6_Witness ==
  fresh /\ op = "enable_scroll" /\ ret = "err" /\ scroll

\* C7: outside the first write of init() and write_str, a failed write is
\* the last thing the call does and the call returns Err: no retry, no
\* further write; and a call returns Err only for a failed write.
C7_FailFast ==
  (op \notin {"new", "write_str"}) =>
    /\ \A j \in 1..Len(trace) :
         (trace[j].k = "w" /\ ~trace[j].ok /\ ~(op = "init" /\ j = 1))
            => (j = Len(trace) /\ ret = "err")
    /\ ret = "err" =>
         (Len(trace) >= 1 /\ trace[Len(trace)].k = "w" /\ ~trace[Len(trace)].ok)
    /\ op = "init" => (Len(trace) >= 1 /\ trace[1].k = "w")

C7_Witness ==
  op = "init" /\ ret = "err" /\ Len(W) = 7 /\ W[1].ok /\ ~W[7].ok

InitProbe(wait) ==
  op = "init" =>
    /\ Len(W) >= 2
    /\ trace[1].k = "w"
    /\ ret = "err" => (Len(W) >= 2 /\ ~W[Len(W)].ok)
    /\ WaitAfter(trace, 2) = (IF W[1].ok THEN wait ELSE 20)

\* C8 as stated: a failure of init()'s first write is not returned and the
\* second write is always attempted; the wait between the two writes is 1 ms
\* after a success and 20 ms after a failure.
C8_AsStated == InitProbe(1)

\* C8, amended: the same, but the wait after a successful first write is
\* 2 ms: the 1 ms of send_command and the 1 ms of init().
C8_ProbeDelay == InitProbe(2)

C8_Witness ==
  op = "init" /\ ~W[1].ok /\ ret = "ok" /\ WaitAfter(trace, 2) = 20

\* C9: write_str of n bytes attempts exactly n writes, [0x40, byte] for
\* each byte in order, whatever fails; it returns Ok and changes no field.
C9_TextWrite ==
  /\ [](op = "write_str" =>
          /\ ret = "ok"
          /\ Len(trace) = Len(args[1])
          /\ \A i \in 1..Len(trace) :
               /\ trace[i].k = "w"
               /\ trace[i].bytes = <<64, args[1][i]>>)
  /\ [][op' = "write_str" => UNCHANGED cfg]_vars

C9_Witness ==
  /\ op = "write_str" /\ Len(args[1]) = 2 /\ args[1][1] # args[1][2]
  /\ Len(W) = 2 /\ ~W[1].ok /\ W[2].ok /\ ret = "ok"

\* C10: every write goes to 0x3E and carries two bytes, the control byte
\* 0x00 (command) or 0x40 (data) and one payload byte; every command method
\* other than init() issues exactly one write.
C10_Frames ==
  /\ \A j \in 1..Len(trace) :
       trace[j].k = "w" =>
         /\ trace[j].addr = 62
         /\ Len(trace[j].bytes) = 2
         /\ trace[j].bytes[1] = (IF op = "write_str" THEN 64 ELSE 0)
         /\ trace[j].bytes[2] \in 0..255
  /\ op \in SingleCommandOps => Len(W) = 1

C10_Witness ==
  op = "move_cursor" /\ Len(W) = 1 /\ W[1].addr = 62 /\ W[1].bytes = <<0, 193>>

----------------------------------------------------------------------------
(* Encoding of the configuration *)

\* C11: the byte written by on(), off(), show_cursor() and hide_cursor() is
\* 0b00001000 | blink | cursor<<1 | display<<2 of the flags as the call
\* leaves them; hide_cursor() clears cursor and blink.
C11_DisplayModeByte ==
  /\ op \in DisplayOps \cup CursorOps =>
       /\ Len(W) = 1
       /\ W[1].bytes = <<0, 8 + B(blink) + 2 * B(cursor) + 4 * B(display)>>
  /\ op = "hide_cursor" => (~cursor /\ ~blink)

C11_Witness ==
  /\ op = "hide_cursor" /\ display /\ ~cursor /\ ~blink
  /\ Len(W) = 1 /\ W[1].bytes = <<0, 12>>

\* C12: enable_scroll(d) then disable_scroll() leaves entry = d and scroll
\* off, and disable_scroll() writes 0b00000100 with bit 1 set exactly when d
\* is LeftToRigh: 0b00000110 for LeftToRigh.
C12_ScrollOffKeepsEntry ==
  /\ scen = 6 => (entry = LeftToRigh /\ ~scroll
                  /\ Len(W) = 1 /\ W[1].bytes = <<0, 6>>)
  /\ scen = 7 => (entry = RightToLeft /\ ~scroll
                  /\ Len(W) = 1 /\ W[1].bytes = <<0, 4>>)

C12_Witness ==
  /\ scen = 6 /\ op = "disable_scroll" /\ entry = LeftToRigh /\ ~scroll
  /\ W[1].bytes = <<0, 6>>

\* C13: clear() writes 0b00000001 and home() writes 0b00000010; after a
\* successful write a delay of 2 ms is requested before the call returns,
\* after a failed write the call returns Err without requesting any delay.
C13_ClearHomeSettle ==
  op \in {"clear", "home"} =>
    /\ Len(W) = 1
    /\ trace[1] = W[1]
    /\ W[1].bytes = <<0, IF op = "clear" THEN 1 ELSE 2>>
    /\ W[1].ok  => (ret = "ok" /\ Len(trace) > 1
                    /\ trace[Len(trace)].k = "d" /\ trace[Len(trace)].ms = 2)
    /\ ~W[1].ok => (ret = "err" /\ Len(trace) = 1)

C13_Witness ==
  op = "home" /\ ret = "ok" /\ W[1].bytes = <<0, 2>> /\ trace[Len(trace)].ms = 2

\* C15: move_cursor, shift_display, shift_cursor, clear, home and write_str
\* leave entry, lines, scroll, display, cursor and blink unchanged whether
\* their write succeeds or fails; no method changes lines.
StatelessOps ==
  {"move_cursor", "shift_display", "shift_cursor", "clear", "home", "write_str"}

C15_StatelessOps ==
  [][/\ op' \in StatelessOps => UNCHANGED cfg
     /\ lines' = lines]_vars

C15_Witness ==
  /\ op = "shift_display" /\ args = <<LeftToRigh>> /\ ret = "err"
  /\ entry = RightToLeft /\ cursor /\ display /\ scroll

----------------------------------------------------------------------------
(* The encoders over their whole range (SpecEnc) *)

Or80(col) == IF col >= 128 THEN col ELSE col + 128      \* col | 0b10000000
OrC0(col) == 192 + (col % 64)                            \* col | 0b11000000

MoveCursorByte ==
  /\ Len(W) = 1
  /\ W[1].bytes = <<0, IF args[1] = 0 THEN Or80(args[2]) ELSE OrC0(args[2])>>

\* C14 as stated: move_cursor(row, col) writes col | 0b10000000 for row 0
\* and col | 0b11000000 otherwise, with no bounds check: for col >= 64 the
\* row-0 byte has bit 6 set and is a row-1 byte.
C14_AsStated ==
  op = "move_cursor" =>
    /\ MoveCursorByte
    /\ (args[1] = 0 /\ args[2] >= 64) =>
         (Bit(Cmds[1], 6) = 1 /\ Cmds[1] = OrC0(args[2]))

\* C14, amended: the same bytes; the row-0 byte has bit 6 set and equals the
\* row-1 byte of the same col exactly when bit 6 of col is set (col in
\* 64..127 or 192..255); for col in 128..191 it is col itself, bit 6 clear.
C14_MoveCursorByte ==
  op = "move_cursor" =>
    /\ MoveCursorByte
    /\ Cmds[1] >= 128
    /\ args[1] = 0 =>
         /\ (Bit(Cmds[1], 6) = 1) = (Bit(args[2], 6) = 1)
         /\ (Cmds[1] = OrC0(args[2])) = (Bit(args[2], 6) = 1)
         /\ args[2] \in 128..191 => Cmds[1] = args[2]

C14_Witness ==
  op = "move_cursor" /\ args = <<0, 64>> /\ W[1].bytes = <<0, 192>>

Rejected == ret = "panic" /\ trace = <<>>
Accepted(byte) == ret # "panic" /\ Len(W) = 1 /\ W[1].bytes = <<0, byte>>

\* C17: an out-of-range parameter aborts the encoder before anything is
\* written: contrast < 16, follower ratio < 8, oscillator frequency < 8,
\* booster contrast_low < 4; an accepted value is OR-ed unmasked into the
\* opcode with its flag bits.
C17_EncoderRanges ==
  /\ op = "send_contrast" =>
       IF args[1] < 16 THEN Accepted(112 + args[1]) ELSE Rejected
  /\ op = "send_follower_config" =>
       IF args[2] < 8 THEN Accepted(96 + args[2] + 8 * B(args[1])) ELSE Rejected
  /\ op = "send_osc_config" =>
       IF args[2] < 8 THEN Accepted(16 + args[2] + 8 * B(args[1])) ELSE Rejected
  /\ op = "send_booster_config" =>
       IF args[3] < 4 THEN Accepted(80 + args[3] + 4 * B(args[1]) + 8 * B(args[2]))
       ELSE Rejected

C17_Witness ==
  op = "send_contrast" /\ args = <<16>> /\ ret = "panic" /\ trace = <<>>

\* C18: for every line count, dbl flag and instruction set the function-set
\* byte has high nibble 0b0011, bit 3 iff lines > 1, bit 2 iff lines <= 1
\* and dbl, bit 0 iff Extented, bit 1 clear.
C18_FunctionSetByte ==
  op = "send_function" =>
    /\ Len(W) = 1
    /\ W[1].bytes[1] = 0
    /\ Cmds[1] \div 16 = 3
    /\ Bit(Cmds[1], 3) = B(args[2] > 1)
    /\ Bit(Cmds[1], 2) = B(args[2] <= 1 /\ args[3])
    /\ Bit(Cmds[1], 1) = 0
    /\ Bit(Cmds[1], 0) = B(args[1] = Extented)

C18_Witness ==
  op = "send_function" /\ args = <<Extented, 1, TRUE>> /\ W[1].bytes = <<0, 53>>

----------------------------------------------------------------------------
(* What the chip has been sent *)

IsCommand(e) == e.bytes[1] = 0
FsWrites(t) == SelectSeq(Writes(t), LAMBDA e : IsCommand(e) /\ IsFunctionSet(e.bytes[2]))
DmWrites(t) == SelectSeq(Writes(t), LAMBDA e : IsCommand(e) /\ IsDisplayMode(e.bytes[2]))
EmWrites(t) == SelectSeq(Writes(t), LAMBDA e : IsCommand(e) /\ IsEntryMode(e.bytes[2]))
Last(q) == q[Len(q)]

\* C16: when init() returns Ok the last function-set byte it wrote has bit 0
\* set (Extented), and no other method writes a function-set command
\* (0b0011____), so nothing after init() selects the Normal set.
C16_StaysExtended ==
  /\ (op = "init" /\ ret = "ok") =>
       /\ Len(FsWrites(trace)) > 0
       /\ Last(FsWrites(trace)).ok
       /\ Bit(Last(FsWrites(trace)).bytes[2], 0) = 1
  /\ op # "init" => FsWrites(trace) = <<>>

C16_Witness ==
  /\ op = "write_str" /\ Len(W) > 0 /\ W[1].bytes = <<64, 49>>
  /\ FsWrites(trace) = <<>>

\* the writes of the call all succeeded, or it is an init() that returned Ok
Delivered(o, t, r) ==
  \/ \A i \in 1..Len(Writes(t)) : Writes(t)[i].ok
  \/ o = "init" /\ r = "ok"

\* C19: from a successful init() on, as long as every write succeeds, the
\* last display-mode byte written encodes (display, cursor, blink) and the
\* last entry-mode byte written encodes (scroll, entry).  As base and step:
\* a successful init() writes both bytes; a call whose writes succeed either
\* writes the byte of the flags it leaves or leaves the flags alone.
C19_BytesFollowFlags ==
  /\ []((op = "init" /\ ret = "ok") =>
          /\ DmWrites(trace) # <<>> /\ Last(DmWrites(trace)).ok
          /\ EmWrites(trace) # <<>> /\ Last(EmWrites(trace)).ok)
  /\ [][Delivered(op', trace', ret') =>
          /\ IF DmWrites(trace') # <<>>
             THEN Last(DmWrites(trace')).bytes[2]
                    = 8 + B(blink') + 2 * B(cursor') + 4 * B(display')
             ELSE UNCHANGED <<display, cursor, blink>>
          /\ IF EmWrites(trace') # <<>>
             THEN Last(EmWrites(trace')).bytes[2]
                    = 4 + B(scroll') + 2 * B(entry' = LeftToRigh)
             ELSE UNCHANGED <<scroll, entry>>]_vars

C19_Witness ==
  /\ op = "init" /\ ret = "ok" /\ AllOk /\ cursor /\ blink /\ scroll
  /\ entry = LeftToRigh
  /\ Last(DmWrites(trace)).bytes[2] = 15
  /\ Last(EmWrites(trace)).bytes[2] = 7

\* the bytes send_osc_config can write
OscBytes ==
  { Writes(send_osc_config(Self, {}, bias, freq).trace)[1].bytes[2] :
      bias \in BOOLEAN, freq \in 0..7 }

\* C20: the bytes that shift_display and shift_cursor write are none of the
\* bytes the oscillator/bias encoder can produce.
C20_ShiftNotOsc ==
  op \in {"shift_display", "shift_cursor"} => Cmds[1] \notin OscBytes

====
